---- MODULE Spec2Model ----
(***************************************************************************)
(* Cross-model transcript validation and dataset consolidation of the      *)
(* Katube pipeline: src/src/processing/transcription_validator.py driven   *)
(* by src/main.py.  Texts are sequences of one-character strings, a Python *)
(* None is the value None, a float similarity is an exact fraction.        *)
(***************************************************************************)
EXTENDS Integers, Sequences, FiniteSets, TLC

\* ------------------------------------------------------------------ bounds
MaxRuns == 2
MaxFaults == 1
\* longest text given to a function called on its own
MaxLen == 3

\* ------------------------------------------------------------ value domains
Dirs == {"d1", "d2"}
\* the directories in sorted path order
WalkOrder == <<"d1", "d2">>
\* the orders in which os.walk can yield them: os.scandir lists a directory
\* in the arbitrary order of the file system and the walkers do not sort
Listings == {<<"d1", "d2">>, <<"d2", "d1">>}
\* segment ids, in the sorted order in which the normalizer writes them
SegOrder == <<"a_0", "a_1", "a_2", "s0", "s1">>
SegIds == {SegOrder[i] : i \in 1..Len(SegOrder)}
\* configured similarity thresholds, in percent
Thresholds == {80, 90}

None == <<"None">>

\* Python truthiness of an optional string: None and '' are falsy
Truthy(t) == t # None /\ t # <<>>

\* ------------------------------------------------------- similarity scoring
\* the whitespace characters of the modelled alphabet (str.strip, \s)
Whitespace == {" ", "\n", "\t"}

RECURSIVE lstrip(_)
lstrip(s) == IF s # <<>> /\ Head(s) \in Whitespace THEN lstrip(Tail(s)) ELSE s

RECURSIVE rstrip(_)
rstrip(s) ==
    IF s # <<>> /\ s[Len(s)] \in Whitespace
    THEN rstrip(SubSeq(s, 1, Len(s) - 1)) ELSE s

strip(s) == rstrip(lstrip(s))

Min2(a, b) == IF a <= b THEN a ELSE b
Max2(a, b) == IF a >= b THEN a ELSE b

RECURSIVE levenshtein(_, _)
levenshtein(a, b) ==
    IF a = <<>> THEN Len(b)
    ELSE IF b = <<>> THEN Len(a)
    ELSE IF Head(a) = Head(b) THEN levenshtein(Tail(a), Tail(b))
    ELSE 1 + Min2(levenshtein(Tail(a), b),
                  Min2(levenshtein(a, Tail(b)), levenshtein(Tail(a), Tail(b))))

RECURSIVE GCD(_, _)
GCD(a, b) == IF b = 0 THEN a ELSE GCD(b, a % b)

\* a float in [0, 1] as the reduced fraction num/den
Float(n, d) ==
    [kind |-> "float", num |-> n \div GCD(n, d), den |-> d \div GCD(n, d)]

\* a score normalized by the length of the first text only
normalized_similarity_ByFirstLength(a, b) ==
    LET m == Len(a)
    IN  Float(Max2(0, m - levenshtein(a, b)), m)

\* textdistance: 1 - distance / max(len)
normalized_similarity(a, b) ==
    LET m == Max2(Len(a), Len(b))
    IN  Float(m - levenshtein(a, b), m)

calculate_similarity(text1, text2) ==
    IF ~Truthy(text1) \/ ~Truthy(text2) THEN Float(0, 1)
    ELSE LET clean_text1 == strip(text1)
             clean_text2 == strip(text2)
         IN  IF clean_text1 = <<>> \/ clean_text2 = <<>> THEN Float(0, 1)
             ELSE normalized_similarity(clean_text1, clean_text2)

\* a strict comparison in place of >=
PassesThreshold_Strict(similarity, thr) ==
    similarity.num * 100 > thr * similarity.den

\* similarity >= SIMILARITY_THRESHOLD, the threshold given in percent
PassesThreshold(similarity, thr) == similarity.num * 100 >= thr * similarity.den

\* ------------------------------------------------------------ normalization
\* re.sub('<.*?>', '', text): from a "<" to the first ">" after it, no line
\* break in between
RECURSIVE remove_html_tags(_)
remove_html_tags(text) ==
    IF text = <<>> THEN <<>>
    ELSE IF /\ Head(text) = "<"
            /\ \E j \in 2..Len(text) :
                  /\ text[j] = ">"
                  /\ \A k \in 2..(j - 1) : text[k] # "\n"
         THEN LET j == CHOOSE j \in 2..Len(text) :
                          /\ text[j] = ">"
                          /\ \A k \in 2..(j - 1) : text[k] # ">"
              IN  remove_html_tags(SubSeq(text, j + 1, Len(text)))
         ELSE <<Head(text)>> \o remove_html_tags(Tail(text))

\* NFD decomposition with the combining marks dropped, then lower()
\* accents kept as they are
Unaccent_Keeps(c) == c

Unaccent(c) ==
    CASE c = "á" -> "a" [] c = "ã" -> "a" [] c = "é" -> "e" [] c = "ç" -> "c"
      [] c = "Á" -> "A" [] c = "Ç" -> "C" [] OTHER -> c

Lower(c) ==
    CASE c = "A" -> "a" [] c = "B" -> "b" [] c = "C" -> "c" [] c = "D" -> "d"
      [] c = "E" -> "e" [] c = "X" -> "x" [] OTHER -> c

\* the characters of the modelled alphabet matched by [.,;:?!"]
SentencePunctuation == {".", ",", ";", ":", "?", "!", "\""}

\* punctuations of normalize_text
Punctuations ==
    {"!", "(", ")", "-", "[", "]", "{", "}", ";", ":", "'", "\"", "\\", ",",
     "<", ">", ".", "/", "?", "@", "#", "$", "%", "^", "&", "*", "_", "~"}

\* str.replace(char, by) for every character of a set
RECURSIVE ReplaceChars(_, _, _)
ReplaceChars(cls, by, text) ==
    IF text = <<>> THEN <<>>
    ELSE <<IF Head(text) \in cls THEN by ELSE Head(text)>>
             \o ReplaceChars(cls, by, Tail(text))

RECURSIVE UnaccentLower(_)
UnaccentLower(text) ==
    IF text = <<>> THEN <<>>
    ELSE <<Lower(Unaccent(Head(text)))>> \o UnaccentLower(Tail(text))

\* re.sub(cls+, by, text) for a character class: every run of characters of
\* the class becomes `by`
RECURSIVE SubRuns(_, _, _, _)
SubRuns(cls, by, text, in_run) ==
    IF text = <<>> THEN <<>>
    ELSE IF Head(text) \in cls
         THEN (IF in_run THEN <<>> ELSE by) \o SubRuns(cls, by, Tail(text), TRUE)
         ELSE <<Head(text)>> \o SubRuns(cls, by, Tail(text), FALSE)

\* re.sub(r'\s([.,;:?!"](?:\s|$))', r'\1', text)
RECURSIVE SpaceBeforePunctuation(_)
SpaceBeforePunctuation(text) ==
    IF text = <<>> THEN <<>>
    ELSE IF /\ Len(text) >= 2
            /\ text[1] \in Whitespace
            /\ text[2] \in SentencePunctuation
            /\ (Len(text) = 2 \/ text[3] \in Whitespace)
         THEN SubSeq(text, 2, Min2(3, Len(text)))
                 \o SpaceBeforePunctuation(SubSeq(text, 4, Len(text)))
         ELSE <<Head(text)>> \o SpaceBeforePunctuation(Tail(text))

text_cleaning(text) ==
    LET no_breaks == ReplaceChars({"\n"}, " ", text)
        no_tags == remove_html_tags(no_breaks)
        lowered == UnaccentLower(no_tags)
        dots == SubRuns({"."}, <<".">>, lowered, FALSE)
        no_brackets == SubRuns({"(", "[", "]", ")"}, <<>>, dots, FALSE)
        tight == SpaceBeforePunctuation(no_brackets)
        single == SubRuns({" "}, <<" ">>, tight, FALSE)
    IN  strip(single)

\* the ends left untrimmed after the punctuation was replaced
normalize_text_NoStrip(text) ==
    IF ~Truthy(text) \/ strip(text) = <<>> THEN None
    ELSE LET cleaned == text_cleaning(text)
             unpunctuated == ReplaceChars(Punctuations, " ", cleaned)
             normalized == SubRuns(Whitespace, <<" ">>, unpunctuated, FALSE)
         IN  IF normalized = <<>> THEN None ELSE normalized

\* the empty result returned as it is
normalize_text_ReturnsEmpty(text) ==
    IF ~Truthy(text) \/ strip(text) = <<>> THEN None
    ELSE LET cleaned == text_cleaning(text)
             unpunctuated == ReplaceChars(Punctuations, " ", cleaned)
             single == SubRuns(Whitespace, <<" ">>, unpunctuated, FALSE)
         IN  strip(single)

normalize_text(text) ==
    IF ~Truthy(text) \/ strip(text) = <<>> THEN None
    ELSE LET cleaned == text_cleaning(text)
             unpunctuated == ReplaceChars(Punctuations, " ", cleaned)
             single == SubRuns(Whitespace, <<" ">>, unpunctuated, FALSE)
             normalized == strip(single)
         IN  IF normalized = <<>> THEN None ELSE normalized

\* -------------------------------------------------------------- input data
\* one entry of normalized_pairs in normalized_transcriptions.json
PairData(lo, ln, fo, fn) ==
    [lgris_original |-> lo, lgris_normalized |-> ln,
     freds0_original |-> fo, freds0_normalized |-> fn]

\* both engines agree after normalization (similarity 1.0)
PairSame == PairData(<<"A", "b">>, <<"a", "b">>, <<"a", "b", ".">>, <<"a", "b">>)
\* one of five characters differs (similarity 0.8)
PairNear ==
    PairData(<<"a", "b", "c", "d", "e">>, <<"a", "b", "c", "d", "e">>,
             <<"a", "b", "c", "d", "x">>, <<"a", "b", "c", "d", "x">>)
\* engine A failed: no text, normalized text null
PairNull == PairData(None, None, <<"a", "b">>, <<"a", "b">>)
\* engine B produced an empty text
PairEmpty == PairData(<<"a", "b">>, <<"a", "b">>, <<>>, <<>>)
\* a normalized text of blanks only: present, but nothing is left to compare
PairBlank == PairData(<<" ">>, <<" ">>, <<"a", "b">>, <<"a", "b">>)

PairChoices == {PairSame, PairNear, PairNull, PairEmpty, PairBlank}

NoPairs == [s \in {} |-> PairSame]

FileAbsent == [state |-> "absent", pairs |-> NoPairs]
FileMalformed == [state |-> "malformed", pairs |-> NoPairs]
FileOk(p) == [state |-> "ok", pairs |-> p]

\* the contents a normalized_transcriptions.json can have: unparsable, no
\* pairs, and mappings that mix approved, rejected and invalid pairs and give
\* the same segment id different texts
NormalizedFiles ==
    {FileMalformed,
     FileOk(NoPairs),
     FileOk(("s0" :> PairNull) @@ ("s1" :> PairBlank)),
     FileOk(("s0" :> PairSame) @@ ("s1" :> PairNear)),
     FileOk(("s0" :> PairNear) @@ ("s1" :> PairNull)),
     FileOk(("s0" :> PairEmpty) @@ ("s1" :> PairSame))}

\* ------------------------------------------------- process_segments_folder
\* one entry of "transcriptions" in an engine's result file: a record with
\* a text, a record without one (the engine's error entry), or a bare string
\* where a record is expected
EntryText(t) == [shape |-> "record", text |-> t]
EntryError == [shape |-> "record", text |-> None]
EntryString == [shape |-> "string", text |-> None]

NoEntries == [s \in {} |-> EntryError]

\* transcricoes_lgris.json / transcricoes_freds0.json: absent, not JSON, or
\* a JSON value: falsy ({}, [], null), a non-empty list, an object without
\* the key 'transcriptions', an object with it
EngineAbsent == [state |-> "absent", shape |-> "none", transcriptions |-> NoEntries]
EngineUnparsable ==
    [state |-> "unparsable", shape |-> "none", transcriptions |-> NoEntries]
EngineJson(shape, entries) ==
    [state |-> "parsed", shape |-> shape, transcriptions |-> entries]

\* the None that load_json_file returns
JsonNone == [state |-> "none", shape |-> "none", transcriptions |-> NoEntries]

load_json_file(file) == IF file.state = "parsed" THEN file ELSE JsonNone

\* `not data` on what load_json_file returned
Falsy(data) == data.state # "parsed" \/ data.shape = "empty"

\* data.get('transcriptions', {})
Transcriptions(data) ==
    IF data.shape = "dict" THEN data.transcriptions ELSE NoEntries

\* transcriptions.get(segment_id, {})
EntryOf(transcriptions, segment_id) ==
    IF segment_id \in DOMAIN transcriptions THEN transcriptions[segment_id]
    ELSE EntryError

\* ids seen by both engines only
AllIds_Intersection(lgris_transcriptions, freds0_transcriptions) ==
    DOMAIN lgris_transcriptions \cap DOMAIN freds0_transcriptions

\* all_ids: set(lgris keys) | set(freds0 keys)
AllIds(lgris_transcriptions, freds0_transcriptions) ==
    DOMAIN lgris_transcriptions \cup DOMAIN freds0_transcriptions

\* normalize_text(original) if original else None
NormalizedOrNone(original) ==
    IF Truthy(original) THEN normalize_text(original) ELSE None

\* normalized_pairs, one entry per id of all_ids
NormalizedPairs(lgris_transcriptions, freds0_transcriptions) ==
    [segment_id \in AllIds(lgris_transcriptions, freds0_transcriptions) |->
        LET lgris_original == EntryOf(lgris_transcriptions, segment_id).text
            freds0_original == EntryOf(freds0_transcriptions, segment_id).text
        IN  PairData(lgris_original, NormalizedOrNone(lgris_original),
                     freds0_original, NormalizedOrNone(freds0_original))]

\* what one call leaves: the value returned ("raised" for an exception that
\* leaves the function) and normalized_transcriptions.json; save is the
\* outcome of the final write
SegmentsFolderOutcome(lgris_file, freds0_file, output_file, save) ==
    LET lgris_data == load_json_file(lgris_file)
        freds0_data == load_json_file(freds0_file)
        lgris_transcriptions == Transcriptions(lgris_data)
        freds0_transcriptions == Transcriptions(freds0_data)
        all_ids == AllIds(lgris_transcriptions, freds0_transcriptions)
    IN  IF lgris_file.state = "absent" \/ freds0_file.state = "absent"
        THEN [returned |-> "False", file |-> output_file]
        ELSE IF Falsy(lgris_data) \/ Falsy(freds0_data)
        THEN [returned |-> "False", file |-> output_file]
        ELSE IF lgris_data.shape = "list" \/ freds0_data.shape = "list"
        THEN [returned |-> "raised", file |-> output_file]
        ELSE IF \E segment_id \in all_ids :
                  \/ EntryOf(lgris_transcriptions, segment_id).shape = "string"
                  \/ EntryOf(freds0_transcriptions, segment_id).shape = "string"
        THEN [returned |-> "raised", file |-> output_file]
        ELSE IF save = "open_error"
        THEN [returned |-> "False", file |-> output_file]
        ELSE IF save = "write_error"
        THEN [returned |-> "False", file |-> FileMalformed]
        ELSE [returned |-> "True",
              file |-> FileOk(NormalizedPairs(lgris_transcriptions,
                                              freds0_transcriptions))]

\* the two result files of a directory
EngineOutput(lgris_file, freds0_file) ==
    [lgris |-> lgris_file, freds0 |-> freds0_file]

NoEngineOutput == EngineOutput(EngineAbsent, EngineAbsent)

TwoSegments(t0, t1) ==
    EngineJson("dict", ("s0" :> EntryText(t0)) @@ ("s1" :> EntryText(t1)))

\* what the two engines can leave in a directory: agreeing and nearly
\* agreeing texts, a segment only one engine transcribed, an error entry, a
\* text of punctuation only, a file that is missing, unparsable, falsy, an
\* object without 'transcriptions', a list, an entry that is no record
EngineOutputs ==
    {EngineOutput(TwoSegments(<<"A", "b">>, <<"a", "b", "c", "d", "e">>),
                  TwoSegments(<<"a", "b", ".">>, <<"a", "b", "c", "d", "x">>)),
     EngineOutput(TwoSegments(<<"a", "b", "c", "d", "e">>, <<"A", "b">>),
                  EngineJson("dict", "s0" :> EntryText(<<"a", "b", "c", "d", "x">>))),
     EngineOutput(EngineJson("dict", ("s0" :> EntryError)
                                         @@ ("s1" :> EntryText(<<"A", "b">>))),
                  TwoSegments(<<".">>, <<"a", " ", "b">>)),
     EngineOutput(TwoSegments(<<"A", "b">>, <<"a", "b">>), EngineAbsent),
     EngineOutput(EngineAbsent, TwoSegments(<<"A", "b">>, <<"a", "b">>)),
     EngineOutput(TwoSegments(<<"A", "b">>, <<"a", "b">>), EngineUnparsable),
     EngineOutput(EngineJson("empty", NoEntries),
                  TwoSegments(<<"A", "b">>, <<"a", "b">>)),
     EngineOutput(EngineJson("no_key", NoEntries),
                  TwoSegments(<<"A", "b">>, <<"a", "b">>)),
     EngineOutput(EngineJson("list", NoEntries),
                  TwoSegments(<<"A", "b">>, <<"a", "b">>)),
     EngineOutput(TwoSegments(<<"A", "b">>, <<"a", "b">>),
                  EngineJson("dict", "s0" :> EntryString))}

\* the segment audio files a directory can hold when it is validated: all
\* of them, or s1.wav gone
AudioStores == {SegIds, SegIds \ {"s1"}}

\* ------------------------------------------------------------ dataset rows
Filename(segment_id) == segment_id \o ".wav"

OrEmpty(t) == IF Truthy(t) THEN t ELSE <<>>

\* an entry built from the normalized texts
ApprovedEntry_Normalized(segment_id, pair_data, similarity) ==
    [filename |-> Filename(segment_id),
     lgris_text |-> OrEmpty(pair_data.lgris_normalized),
     freds0_text |-> OrEmpty(pair_data.freds0_normalized),
     similarity |-> similarity]

\* approved_entry of process_validation
ApprovedEntry(segment_id, pair_data, similarity) ==
    [filename |-> Filename(segment_id),
     lgris_text |-> OrEmpty(pair_data.lgris_original),
     freds0_text |-> OrEmpty(pair_data.freds0_original),
     similarity |-> similarity]

\* csv.DictWriter writes str(value): a float becomes its text, a text stays
CsvCell(v) == IF v.kind = "float" THEN [v EXCEPT !.kind = "str"] ELSE v

CsvRow(row) == [row EXCEPT !.similarity = CsvCell(row.similarity)]

Filenames(rows) == {rows[i].filename : i \in 1..Len(rows)}

\* ----------------------------------------------------- process_validation
\* the statistics and the approved list at the start of the loop
LoopStart ==
    [total_pairs |-> 0, approved_pairs |-> 0, rejected_pairs |-> 0,
     invalid_pairs |-> 0, approved_data |-> <<>>, copy_attempts |-> {},
     verdicts |-> [s \in {} |-> [verdict |-> "invalid", similarity |-> Float(0, 1)]]]

\* an invalid pair that falls through to the rejected count (no continue)
InvalidBranch_FallsThrough(acc, segment_id) ==
    [acc EXCEPT !.invalid_pairs = @ + 1,
                !.rejected_pairs = @ + 1,
                !.verdicts = @ @@ (segment_id :>
                    [verdict |-> "invalid", similarity |-> Float(0, 1)])]

\* a pair whose normalized text is missing on either side: counted, skipped
InvalidBranch(acc, segment_id) ==
    [acc EXCEPT !.invalid_pairs = @ + 1,
                !.verdicts = @ @@ (segment_id :>
                    [verdict |-> "invalid", similarity |-> Float(0, 1)])]

\* the threshold test on a scored pair
ScoredBranch(acc, segment_id, pair_data, similarity, thr) ==
    IF PassesThreshold(similarity, thr)
    THEN [acc EXCEPT !.approved_pairs = @ + 1,
                     !.approved_data =
                         Append(@, ApprovedEntry(segment_id, pair_data, similarity)),
                     !.copy_attempts = @ \cup {segment_id},
                     !.verdicts = @ @@ (segment_id :>
                         [verdict |-> "approved", similarity |-> similarity])]
    ELSE [acc EXCEPT !.rejected_pairs = @ + 1,
                     !.verdicts = @ @@ (segment_id :>
                         [verdict |-> "rejected", similarity |-> similarity])]

\* one iteration of the loop over normalized_pairs.items()
LoopBody(acc, segment_id, pair_data, thr) ==
    LET counted == [acc EXCEPT !.total_pairs = @ + 1]
        lgris_normalized == pair_data.lgris_normalized
        freds0_normalized == pair_data.freds0_normalized
    IN  IF ~Truthy(lgris_normalized) \/ ~Truthy(freds0_normalized)
        THEN InvalidBranch(counted, segment_id)
        ELSE ScoredBranch(counted, segment_id, pair_data,
                          calculate_similarity(lgris_normalized, freds0_normalized),
                          thr)

\* the loop, over the segment ids of the file in their stored order
RECURSIVE ValidationLoop(_, _, _, _)
ValidationLoop(acc, i, pairs, thr) ==
    IF i > Len(SegOrder) THEN acc
    ELSE IF SegOrder[i] \in DOMAIN pairs
         THEN ValidationLoop(LoopBody(acc, SegOrder[i], pairs[SegOrder[i]], thr),
                             i + 1, pairs, thr)
         ELSE ValidationLoop(acc, i + 1, pairs, thr)

\* what one call of process_validation leaves behind; io is the outcome of
\* its two file writes, sources the segment audio files found in the
\* directory, copy_ok those of them whose copy did not raise
NotValidated ==
    [ran |-> FALSE, loaded |-> FALSE, stats |-> LoopStart, sources |-> {},
     copied |-> {}, logged |-> {}, sources_left |-> {},
     io |-> "none", csv_file |-> FALSE, results_file |-> FALSE,
     returned |-> <<>>]

\* shutil.move in place of shutil.copy2: the source file is gone afterwards
AudioLeft_Moved(sources, copied) == sources \ copied

\* the segment audio files of the directory after shutil.copy2
AudioLeft(sources, copied) == sources

ValidationOutcome(file, thr, io, sources, copy_ok) ==
    IF file.state # "ok" \/ DOMAIN file.pairs = {}
    THEN [NotValidated EXCEPT !.ran = TRUE]
    ELSE LET acc == ValidationLoop(LoopStart, 1, file.pairs, thr)
             copied == acc.copy_attempts \cap sources \cap copy_ok
         IN  [ran |-> TRUE, loaded |-> TRUE, stats |-> acc,
              sources |-> sources,
              copied |-> copied,
              logged |-> acc.copy_attempts \ copied,
              sources_left |-> AudioLeft(sources, copied),
              io |-> io,
              csv_file |-> io # "csv_error",
              results_file |-> io = "ok",
              returned |-> IF io = "ok" THEN acc.approved_data ELSE <<>>]

\* --------------------------------------------------- consolidate_datasets
\* final_dataset.csv: whether it exists, whether its header line is there,
\* and its data rows in file order
NoFile == [exists |-> FALSE, header |-> FALSE, rows |-> <<>>]

\* an upsert that keeps the texts of the row it finds
Upsert_MergesFields(data, row) ==
    IF \E i \in 1..Len(data) : data[i].filename = row.filename
    THEN LET i == CHOOSE k \in 1..Len(data) : data[k].filename = row.filename
         IN  [data EXCEPT ![i] = [row EXCEPT !.lgris_text = data[i].lgris_text]]
    ELSE Append(data, row)

\* combined_data[filename] = row on an insertion-ordered dict
Upsert(data, row) ==
    IF \E i \in 1..Len(data) : data[i].filename = row.filename
    THEN LET i == CHOOSE k \in 1..Len(data) : data[k].filename = row.filename
         IN  [data EXCEPT ![i] = row]
    ELSE Append(data, row)

\* the dict built by reading the rows of the file with csv.DictReader
RECURSIVE ReadRows(_, _)
ReadRows(data, rows) ==
    IF rows = <<>> THEN data
    ELSE IF Head(rows).filename # ""
         THEN ReadRows(Upsert(data, Head(rows)), Tail(rows))
         ELSE ReadRows(data, Tail(rows))

load_existing_dataset(file, load_error) ==
    IF ~file.exists THEN <<>>
    ELSE IF load_error THEN <<>>
    ELSE IF ~file.header THEN <<>>
    ELSE ReadRows(<<>>, file.rows)

\* the loop over all_approved_data
RECURSIVE MergeNew(_, _)
MergeNew(combined_data, new_rows) ==
    IF new_rows = <<>> THEN combined_data
    ELSE MergeNew(Upsert(combined_data, Head(new_rows)), Tail(new_rows))

\* the outcomes of open(final_csv, 'w') and of the writes that follow:
\* complete, refused at open, or failed after `lines` lines
WriteOk == [kind |-> "ok", lines |-> 0]
OpenError == [kind |-> "open_error", lines |-> 0]
WriteError(n) == [kind |-> "write_error", lines |-> n]

WriteFaults(final_data) ==
    {OpenError} \cup {WriteError(n) : n \in 0..Len(final_data)}

RECURSIVE CsvRows(_)
CsvRows(rows) ==
    IF rows = <<>> THEN <<>> ELSE <<CsvRow(Head(rows))>> \o CsvRows(Tail(rows))

\* the header line, then writer.writerow for every row of final_data
FullFile(final_data) ==
    [exists |-> TRUE, header |-> TRUE, rows |-> CsvRows(final_data)]

\* open(..., 'w') truncates the file in place, then the lines are written
WriteFinalCsv(file, final_data, outcome) ==
    IF outcome.kind = "ok" THEN FullFile(final_data)
    ELSE IF outcome.kind = "open_error" THEN file
    ELSE [exists |-> TRUE, header |-> outcome.lines >= 1,
          rows |-> IF outcome.lines >= 1
                   THEN SubSeq(FullFile(final_data).rows, 1, outcome.lines - 1)
                   ELSE <<>>]

\* the merge of consolidate_datasets: existing rows, then the upserts
MergedData(file, new_rows, load_error) ==
    MergeNew(load_existing_dataset(file, load_error), new_rows)

\* a consolidator that returns early when the run approved nothing
ConsolidatedFile_SkipsEmpty(file, new_rows, load_error, outcome) ==
    IF new_rows = <<>> THEN file
    ELSE WriteFinalCsv(file, MergedData(file, new_rows, load_error), outcome)

\* final_dataset.csv after consolidate_datasets: no early return, the file
\* is always opened for writing
ConsolidatedFile(file, new_rows, load_error, outcome) ==
    WriteFinalCsv(file, MergedData(file, new_rows, load_error), outcome)

NotConsolidated ==
    [done |-> FALSE, pre_csv |-> NoFile, load_error |-> FALSE,
     existing_data |-> <<>>, new_rows |-> <<>>, combined_data |-> <<>>,
     write |-> WriteOk]

\* ------------------------------------------------------------------- state
VARIABLES
    threshold,        \* SIMILARITY_THRESHOLD, in percent
    inputs,           \* what the normalizer produces for each directory
    listing,          \* the order in which os.walk yields the directories
    transcriptions,   \* the two engines' result files of each directory
    normalization,    \* what the normalization step of this run did
    normalized,       \* normalized_transcriptions.json of each directory
    final_csv,        \* output/final_dataset.csv
    output_segments,  \* the audio files in output/segments
    pc,               \* position of the pipeline's validation step
    runs,             \* validation steps completed
    faults,           \* I/O errors the environment has raised so far
    walk,             \* directories os.walk has still to yield
    all_approved_data,\* rows collected by batch_validate_all
    processed,        \* its counter of processed directories
    report,           \* per directory, what process_validation did
    cons,             \* the locals of consolidate_datasets
    step_result,      \* what execute_validation_step returned
    exit_code,        \* what main returned
    run_inputs,       \* the directories as the current run found them
    prev_run,         \* inputs and result of the previous run, and whether
                      \* its consolidation met no load or write error
    args,             \* the arguments of a function called on its own
    value,            \* what that call returned
    invocations,      \* two pipeline invocations consolidating side by side
    downloads,        \* the playlist directories under downloads/
    cleanup           \* the locals of cleanup_manager.cleanup_intermediate_files

vars == <<threshold, inputs, listing, transcriptions, normalization, normalized, final_csv, output_segments, pc, runs,
          faults, walk, all_approved_data, processed, report, cons,
          step_result, exit_code, run_inputs, prev_run, args, value,
          invocations, downloads, cleanup>>

\* the state of the validation pipeline
pipeline == <<threshold, inputs, listing, transcriptions, normalization,
              normalized, final_csv, output_segments, pc, runs, faults, walk,
              all_approved_data, processed, report, cons, step_result,
              exit_code, run_inputs, prev_run>>

\* the state used only when a function or the cleanup manager runs on its own
apart == <<args, value, invocations, downloads, cleanup>>

\* no function has been called on its own
NoArgs == [op |-> "none"]
NoValue == [op |-> "none"]

\* nothing is running apart from the pipeline
NothingApart ==
    /\ args = NoArgs
    /\ value = NoValue
    /\ invocations = <<>>
    /\ downloads = <<>>
    /\ cleanup = [pc |-> "none"]

NotNormalized ==
    [ran |-> FALSE, before |-> [d \in Dirs |-> FileAbsent],
     results |-> [d \in Dirs |-> "none"], step |-> "none"]

NoRun ==
    [valid |-> FALSE, persisted |-> FALSE,
     normalized |-> [d \in Dirs |-> FileAbsent],
     io |-> [d \in Dirs |-> "none"], final_csv |-> NoFile]

Init ==
    /\ threshold \in Thresholds
    /\ inputs \in [Dirs -> NormalizedFiles]
    /\ listing = WalkOrder
    /\ transcriptions = [d \in Dirs |-> NoEngineOutput]
    /\ normalization = NotNormalized
    /\ normalized = [d \in Dirs |-> FileAbsent]
    /\ final_csv = NoFile
    /\ output_segments = {}
    /\ pc = "idle"
    /\ runs = 0
    /\ faults = 0
    /\ walk = <<>>
    /\ all_approved_data = <<>>
    /\ processed = 0
    /\ report = [d \in Dirs |-> NotValidated]
    /\ cons = NotConsolidated
    /\ step_result = "none"
    /\ exit_code = -1
    /\ run_inputs = [d \in Dirs |-> FileAbsent]
    /\ prev_run = NoRun
    /\ NothingApart

\* ----------------------------------------------------------------- actions
\* the normalization step writes normalized_transcriptions.json of a directory
process_segments_folder(d) ==
    /\ pc = "idle"
    /\ runs < MaxRuns
    /\ normalized[d] # inputs[d]
    /\ normalized' = [normalized EXCEPT ![d] = inputs[d]]
    /\ UNCHANGED <<apart, threshold, inputs, listing, transcriptions, normalization,
                   final_csv, output_segments, pc, runs, faults, walk,
                   all_approved_data, processed, report, cons, step_result,
                   exit_code, run_inputs, prev_run>>

\* the cleanup step removes every playlist directory under downloads/,
\* except those whose rmtree raises
cleanup_intermediate_files ==
    /\ pc = "idle"
    /\ runs < MaxRuns
    /\ \E d \in Dirs : normalized[d] # FileAbsent
    /\ \E kept \in SUBSET {d \in Dirs : normalized[d] # FileAbsent} :
         /\ kept # {} => faults < MaxFaults
         /\ kept # {d \in Dirs : normalized[d] # FileAbsent}
         /\ faults' = IF kept # {} THEN faults + 1 ELSE faults
         /\ normalized' =
                [d \in Dirs |-> IF d \in kept THEN normalized[d] ELSE FileAbsent]
    /\ UNCHANGED <<apart, threshold, inputs, listing, transcriptions, normalization,
                   final_csv, output_segments, pc, runs, walk,
                   all_approved_data, processed, report, cons, step_result,
                   exit_code, run_inputs, prev_run>>

\* a walker that keeps only the rows of the directory it visited last
Collected_KeepsLast(collected, approved_data) ==
    IF approved_data # <<>> THEN approved_data ELSE collected

\* if approved_data: all_approved_data.extend(approved_data)
Collected(collected, approved_data) ==
    IF approved_data # <<>> THEN collected \o approved_data ELSE collected

\* the directories of os.walk that hold a normalized_transcriptions.json
RECURSIVE WalkFrom(_, _, _)
WalkFrom(order, i, files) ==
    IF i > Len(order) THEN <<>>
    ELSE IF files[order[i]].state # "absent"
         THEN <<order[i]>> \o WalkFrom(order, i + 1, files)
         ELSE WalkFrom(order, i + 1, files)

\* execute_validation_step calls batch_validate_all: counters initialised
batch_validate_all ==
    /\ pc = "idle"
    /\ runs < MaxRuns
    /\ pc' = "walk"
    /\ walk' = WalkFrom(listing, 1, normalized)
    /\ all_approved_data' = <<>>
    /\ processed' = 0
    /\ report' = [d \in Dirs |-> NotValidated]
    /\ cons' = NotConsolidated
    /\ step_result' = "none"
    /\ exit_code' = -1
    /\ run_inputs' = normalized
    /\ UNCHANGED <<apart, threshold, inputs, listing, transcriptions, normalization,
                   normalized, final_csv, output_segments, runs, faults,
                   prev_run>>

\* the body of the os.walk loop for the next directory
process_validation ==
    /\ pc = "walk"
    /\ walk # <<>>
    /\ LET d == Head(walk)
           attempts ==
               ValidationOutcome(normalized[d], threshold, "ok", {}, {}).stats.copy_attempts
       IN  \E io \in {"ok", "csv_error", "report_error"},
              sources \in {attempts \cap a : a \in AudioStores} :
           \E copy_ok \in SUBSET sources :
             LET out == ValidationOutcome(normalized[d], threshold, io, sources, copy_ok)
                 fault == io # "ok" \/ copy_ok # sources
             IN  /\ fault => faults < MaxFaults /\ out.loaded
                 /\ faults' = IF fault THEN faults + 1 ELSE faults
                 /\ report' = [report EXCEPT ![d] = out]
                 /\ output_segments' =
                        output_segments \cup {Filename(s) : s \in out.copied}
                 /\ processed' =
                        IF out.returned # <<>> THEN processed + 1 ELSE processed
                 /\ all_approved_data' = Collected(all_approved_data, out.returned)
    /\ walk' = Tail(walk)
    /\ UNCHANGED <<apart, threshold, inputs, listing, transcriptions, normalization,
                   normalized, final_csv, pc, runs, cons, step_result,
                   exit_code, run_inputs, prev_run>>

\* consolidate_datasets(all_approved_data, output_dir), after the loop
consolidate_datasets ==
    /\ pc = "walk"
    /\ walk = <<>>
    /\ \E load_error \in BOOLEAN :
         LET existing_data == load_existing_dataset(final_csv, load_error)
             combined_data == MergedData(final_csv, all_approved_data, load_error)
         IN  \E outcome \in {WriteOk} \cup WriteFaults(combined_data) :
               LET nfaults == (IF load_error THEN 1 ELSE 0)
                              + (IF outcome # WriteOk THEN 1 ELSE 0)
               IN  /\ load_error => final_csv.exists
                   /\ faults + nfaults <= MaxFaults
                   /\ faults' = faults + nfaults
                   /\ final_csv' = ConsolidatedFile(final_csv, all_approved_data,
                                                    load_error, outcome)
                   /\ cons' = [done |-> TRUE, pre_csv |-> final_csv,
                               load_error |-> load_error,
                               existing_data |-> existing_data,
                               new_rows |-> all_approved_data,
                               combined_data |-> combined_data,
                               write |-> outcome]
    /\ pc' = "step"
    /\ UNCHANGED <<apart, threshold, inputs, listing, transcriptions, normalization,
                   normalized, output_segments, runs, walk,
                   all_approved_data, processed, report, step_result,
                   exit_code, run_inputs, prev_run>>

\* execute_validation_step after batch_validate_all returned, and main's
\* exit code
execute_validation_step ==
    /\ pc = "step"
    /\ step_result' = IF final_csv.exists THEN "success" ELSE "failed"
    /\ exit_code' = IF final_csv.exists THEN 0 ELSE 1
    /\ prev_run' = [valid |-> TRUE,
                    persisted |-> ~cons.load_error /\ cons.write = WriteOk,
                    normalized |-> run_inputs,
                    io |-> [d \in Dirs |-> report[d].io],
                    final_csv |-> final_csv]
    /\ normalization' = NotNormalized
    /\ runs' = runs + 1
    /\ pc' = "idle"
    /\ UNCHANGED <<apart, threshold, inputs, listing, transcriptions, normalized, final_csv,
                   output_segments, faults, walk, all_approved_data,
                   processed, report, cons, run_inputs>>

\* a transcriber run again with overwrite whose save fails after the file
\* was opened for writing: engine B's result file is left unparsable
transcribe_segments_directory(d) ==
    /\ pc = "idle"
    /\ runs < MaxRuns
    /\ ~normalization.ran
    /\ transcriptions[d].freds0.state = "parsed"
    /\ transcriptions' =
           [transcriptions EXCEPT ![d].freds0 = EngineUnparsable]
    /\ UNCHANGED <<apart, threshold, inputs, listing, normalization, normalized, final_csv,
                   output_segments, pc, runs, faults, walk,
                   all_approved_data, processed, report, cons, step_result,
                   exit_code, run_inputs, prev_run>>

\* the os.walk loop of batch_process_all from the i-th directory on: a
\* directory without both result files is passed over, an exception leaves
\* the loop
RECURSIVE BatchProcess(_, _, _, _, _, _)
BatchProcess(order, i, engine_files, files, results, saves) ==
    IF i > Len(order)
    THEN [files |-> files, results |-> results, raised |-> FALSE]
    ELSE LET d == order[i]
             out == SegmentsFolderOutcome(engine_files[d].lgris,
                                          engine_files[d].freds0,
                                          files[d], saves[d])
         IN  IF \/ engine_files[d].lgris.state = "absent"
                \/ engine_files[d].freds0.state = "absent"
             THEN BatchProcess(order, i + 1, engine_files, files,
                               [results EXCEPT ![d] = "skipped"], saves)
             ELSE IF out.returned = "raised"
             THEN [files |-> files,
                   results |-> [results EXCEPT ![d] = "raised"],
                   raised |-> TRUE]
             ELSE BatchProcess(order, i + 1, engine_files,
                               [files EXCEPT ![d] = out.file],
                               [results EXCEPT ![d] = out.returned], saves)

\* execute_normalization_step: batch_process_all("downloads") inside try
execute_normalization_step ==
    /\ pc = "idle"
    /\ runs < MaxRuns
    /\ ~normalization.ran
    /\ \E saves \in [Dirs -> {"ok", "open_error", "write_error"}] :
         LET clean == BatchProcess(listing, 1, transcriptions, normalized,
                                   NotNormalized.results,
                                   [d \in Dirs |-> "ok"])
             batch == BatchProcess(listing, 1, transcriptions, normalized,
                                   NotNormalized.results, saves)
             failed == {d \in Dirs : saves[d] # "ok"}
         IN  /\ \A d \in failed : clean.results[d] = "True"
             /\ faults + Cardinality(failed) <= MaxFaults
             /\ faults' = faults + Cardinality(failed)
             /\ normalized' = batch.files
             /\ normalization' =
                    [ran |-> TRUE, before |-> normalized,
                     results |-> batch.results,
                     step |-> IF batch.raised THEN "failed" ELSE "success"]
    /\ UNCHANGED <<apart, threshold, inputs, listing, transcriptions, final_csv,
                   output_segments, pc, runs, walk, all_approved_data,
                   processed, report, cons, step_result, exit_code,
                   run_inputs, prev_run>>

Next ==
    \/ \E d \in Dirs : process_segments_folder(d)
    \/ cleanup_intermediate_files
    \/ batch_validate_all
    \/ process_validation
    \/ consolidate_datasets
    \/ execute_validation_step

Spec == Init /\ [][Next]_vars

\* the pipeline from the engines' result files on: normalization step, then
\* validation step, on a file system that raises no further I/O error
InitAgg ==
    /\ threshold \in Thresholds
    /\ inputs = [d \in Dirs |-> FileAbsent]
    /\ listing \in Listings
    /\ transcriptions \in [Dirs -> EngineOutputs]
    /\ normalization = NotNormalized
    /\ normalized = [d \in Dirs |-> FileAbsent]
    /\ final_csv = NoFile
    /\ output_segments = {}
    /\ pc = "idle"
    /\ runs = 0
    /\ faults = MaxFaults
    /\ walk = <<>>
    /\ all_approved_data = <<>>
    /\ processed = 0
    /\ report = [d \in Dirs |-> NotValidated]
    /\ cons = NotConsolidated
    /\ step_result = "none"
    /\ exit_code = -1
    /\ run_inputs = [d \in Dirs |-> FileAbsent]
    /\ prev_run = NoRun
    /\ NothingApart

NextAgg ==
    \/ \E d \in Dirs : transcribe_segments_directory(d)
    \/ execute_normalization_step
    \/ batch_validate_all
    \/ process_validation
    \/ consolidate_datasets
    \/ execute_validation_step

SpecAgg == InitAgg /\ [][NextAgg]_vars

\* ------------------------------------------------- threshold configuration
\* values similarity_threshold can be given in config.py, in percent
ConfiguredThresholds == Thresholds \cup {-10, 150}

\* validate_config: not (0.0 <= similarity_threshold <= 1.0) is an error
ThresholdValid(thr) == 0 <= thr /\ thr <= 100

\* main.py starts with validate_and_show_config and returns 1 when the
\* configuration is invalid
validate_and_show_config ==
    /\ pc = "config"
    /\ pc' = IF ThresholdValid(threshold) THEN "idle" ELSE "exited"
    /\ exit_code' = IF ThresholdValid(threshold) THEN exit_code ELSE 1
    /\ UNCHANGED <<apart, threshold, inputs, listing, transcriptions,
                   normalization, normalized, final_csv, output_segments,
                   runs, faults, walk, all_approved_data, processed, report,
                   cons, step_result, run_inputs, prev_run>>

\* the two ways into validation: main.py (pc = "config"), or the validator
\* module itself, whose main() and batch_validate_all read
\* SIMILARITY_THRESHOLD from config.py at import (pc = "idle")
InitCfg ==
    /\ threshold \in ConfiguredThresholds
    /\ inputs \in [Dirs -> NormalizedFiles]
    /\ listing = WalkOrder
    /\ transcriptions = [d \in Dirs |-> NoEngineOutput]
    /\ normalization = NotNormalized
    /\ normalized = inputs
    /\ final_csv = NoFile
    /\ output_segments = {}
    /\ pc \in {"config", "idle"}
    /\ runs = 0
    /\ faults = MaxFaults
    /\ walk = <<>>
    /\ all_approved_data = <<>>
    /\ processed = 0
    /\ report = [d \in Dirs |-> NotValidated]
    /\ cons = NotConsolidated
    /\ step_result = "none"
    /\ exit_code = -1
    /\ run_inputs = [d \in Dirs |-> FileAbsent]
    /\ prev_run = NoRun
    /\ NothingApart

NextCfg ==
    \/ validate_and_show_config
    \/ batch_validate_all
    \/ process_validation
    \/ consolidate_datasets
    \/ execute_validation_step

SpecCfg == InitCfg /\ [][NextCfg]_vars

\* ------------------------------------------ two invocations, one FinalDataset
\* two runs of the pipeline started side by side on the same output/
Invocations == {"i1", "i2"}

\* the directory each of them walks
DirOf(i) == IF i = "i1" THEN "d1" ELSE "d2"

\* an invocation that has collected its rows and is about to consolidate
AboutToConsolidate(rows) ==
    [pc |-> "collected", all_approved_data |-> rows, existing_data |-> <<>>]

InitTwo ==
    /\ threshold \in Thresholds
    /\ inputs \in [Dirs -> NormalizedFiles]
    /\ listing = WalkOrder
    /\ transcriptions = [d \in Dirs |-> NoEngineOutput]
    /\ normalization = NotNormalized
    /\ normalized = inputs
    /\ final_csv = NoFile
    /\ output_segments = {}
    /\ pc = "idle"
    /\ runs = 0
    /\ faults = MaxFaults
    /\ walk = <<>>
    /\ all_approved_data = <<>>
    /\ processed = 0
    /\ report = [d \in Dirs |-> NotValidated]
    /\ cons = NotConsolidated
    /\ step_result = "none"
    /\ exit_code = -1
    /\ run_inputs = [d \in Dirs |-> FileAbsent]
    /\ prev_run = NoRun
    /\ args = NoArgs
    /\ value = NoValue
    /\ invocations =
           [i \in Invocations |->
               AboutToConsolidate(
                   ValidationOutcome(inputs[DirOf(i)], threshold, "ok", {}, {}).returned)]
    /\ downloads = <<>>
    /\ cleanup = [pc |-> "none"]

\* consolidate_datasets up to existing_data = load_existing_dataset(final_csv)
consolidate_load(i) ==
    /\ invocations[i].pc = "collected"
    /\ invocations' =
           [invocations EXCEPT
               ![i].pc = "loaded",
               ![i].existing_data = load_existing_dataset(final_csv, FALSE)]
    /\ UNCHANGED <<pipeline, args, value, downloads, cleanup>>

\* the rest of consolidate_datasets: the merge in memory, then the file is
\* opened with 'w' and written in full; nothing is locked in between
consolidate_write(i) ==
    /\ invocations[i].pc = "loaded"
    /\ final_csv' =
           WriteFinalCsv(final_csv,
                         MergeNew(invocations[i].existing_data,
                                  invocations[i].all_approved_data),
                         WriteOk)
    /\ invocations' = [invocations EXCEPT ![i].pc = "done"]
    /\ UNCHANGED <<threshold, inputs, listing, transcriptions, normalization,
                   normalized, output_segments, pc, runs, faults, walk,
                   all_approved_data, processed, report, cons, step_result,
                   exit_code, run_inputs, prev_run, args, value, downloads,
                   cleanup>>

NextTwo ==
    \/ \E i \in Invocations : consolidate_load(i)
    \/ \E i \in Invocations : consolidate_write(i)

SpecTwo == InitTwo /\ [][NextTwo]_vars

\* ------------------------------------------------ functions on their own
\* every text of at most n characters of an alphabet
Texts(alphabet, n) == UNION {[1..k -> alphabet] : k \in 0..n}

\* characters that take every branch of text_cleaning and normalize_text
NormChars == {"<", ">", ".", " ", "\n", "(", "á", "A", "b", "!"}

\* characters of the texts that are scored, and the null text
SimChars == {"a", "b", " "}
SimTexts == Texts(SimChars, MaxLen) \cup {None}

\* the directory of the worked example: ids a_0, a_1, a_2, engine A (lgris)
\* "ola mundo", "bom dia", "", engine B (freds0) "olá mundo!", "boa tarde",
\* "teste"
ThreeSegments(t0, t1, t2) ==
    EngineJson("dict", ("a_0" :> EntryText(t0)) @@ ("a_1" :> EntryText(t1))
                           @@ ("a_2" :> EntryText(t2)))

OlaMundo == <<"o", "l", "a", " ", "m", "u", "n", "d", "o">>
BomDia == <<"b", "o", "m", " ", "d", "i", "a">>
BoaTarde == <<"b", "o", "a", " ", "t", "a", "r", "d", "e">>
Teste == <<"t", "e", "s", "t", "e">>
OlaMundoAccented == <<"o", "l", "á", " ", "m", "u", "n", "d", "o", "!">>

ExampleDirectory ==
    EngineOutput(ThreeSegments(OlaMundo, BomDia, <<>>),
                 ThreeSegments(OlaMundoAccented, BoaTarde, Teste))

\* the example and its neighbours: the same directory with one text changed
ExampleDirectories ==
    {EngineOutput(ThreeSegments(OlaMundo, BomDia, t2),
                  ThreeSegments(b0, b1, Teste)) :
        t2 \in {<<>>, Teste}, b0 \in {OlaMundoAccented, BomDia},
        b1 \in {BoaTarde, BomDia}}

InitFun ==
    /\ threshold \in Thresholds
    /\ inputs = [d \in Dirs |-> FileAbsent]
    /\ listing = WalkOrder
    /\ transcriptions = [d \in Dirs |-> NoEngineOutput]
    /\ normalization = NotNormalized
    /\ normalized = [d \in Dirs |-> FileAbsent]
    /\ final_csv = NoFile
    /\ output_segments = {}
    /\ pc = "idle"
    /\ runs = 0
    /\ faults = MaxFaults
    /\ walk = <<>>
    /\ all_approved_data = <<>>
    /\ processed = 0
    /\ report = [d \in Dirs |-> NotValidated]
    /\ cons = NotConsolidated
    /\ step_result = "none"
    /\ exit_code = -1
    /\ run_inputs = [d \in Dirs |-> FileAbsent]
    /\ prev_run = NoRun
    /\ args \in {[op |-> "normalize_text", text |-> t] :
                     t \in Texts(NormChars, MaxLen)}
            \cup {[op |-> "calculate_similarity", text1 |-> t1, text2 |-> t2] :
                     t1 \in SimTexts, t2 \in SimTexts}
            \cup {[op |-> "directory", engines |-> e] : e \in ExampleDirectories}
    /\ value = NoValue
    /\ invocations = <<>>
    /\ downloads = <<>>
    /\ cleanup = [pc |-> "none"]

\* normalize_text(text)
call_normalize_text ==
    /\ args.op = "normalize_text"
    /\ value = NoValue
    /\ value' = [op |-> "normalize_text", result |-> normalize_text(args.text)]
    /\ UNCHANGED <<pipeline, args, invocations, downloads, cleanup>>

\* calculate_similarity(text1, text2)
call_calculate_similarity ==
    /\ args.op = "calculate_similarity"
    /\ value = NoValue
    /\ value' = [op |-> "calculate_similarity",
                 result |-> calculate_similarity(args.text1, args.text2)]
    /\ UNCHANGED <<pipeline, args, invocations, downloads, cleanup>>

\* process_segments_folder on a directory, then process_validation on the
\* file it wrote, with no I/O error and every audio file in place
normalize_then_validate ==
    /\ args.op = "directory"
    /\ value = NoValue
    /\ LET aggregated ==
               SegmentsFolderOutcome(args.engines.lgris, args.engines.freds0,
                                     FileAbsent, "ok")
       IN  value' = [op |-> "directory",
                     aggregated |-> aggregated,
                     validated |-> ValidationOutcome(aggregated.file, threshold,
                                                     "ok", SegIds, SegIds)]
    /\ UNCHANGED <<pipeline, args, invocations, downloads, cleanup>>

NextFun ==
    \/ call_normalize_text
    \/ call_calculate_similarity
    \/ normalize_then_validate

SpecFun == InitFun /\ [][NextFun]_vars

\* ------------------------------------------------------- cleanup manager
\* the playlist directories under downloads/
Playlists == {"p1", "p2", "p3"}

\* a playlist directory: whether it exists, whether it holds
\* execution_report.json, whether it holds anything else
PlaylistDir(has_report) ==
    [exists |-> TRUE, report |-> has_report, content |-> TRUE]

\* downloads/ before the cleanup: the playlist directories, and no
\* <playlist>_execution_report.json beside them
DownloadsWith(reports) ==
    [playlists |-> [p \in Playlists |-> PlaylistDir(p \in reports)],
     temp_reports |-> {}]

\* cleanup_intermediate_files has been called and is about to iterate
CleanupStart(keep_execution_reports, reports) ==
    [pc |-> "playlists", keep_execution_reports |-> keep_execution_reports,
     todo |-> Playlists, had_report |-> reports,
     removed_items |-> {}, errors |-> {}]

InitCleanup ==
    /\ threshold \in Thresholds
    /\ inputs = [d \in Dirs |-> FileAbsent]
    /\ listing = WalkOrder
    /\ transcriptions = [d \in Dirs |-> NoEngineOutput]
    /\ normalization = NotNormalized
    /\ normalized = [d \in Dirs |-> FileAbsent]
    /\ final_csv = NoFile
    /\ output_segments = {}
    /\ pc = "idle"
    /\ runs = 0
    /\ faults = MaxFaults
    /\ walk = <<>>
    /\ all_approved_data = <<>>
    /\ processed = 0
    /\ report = [d \in Dirs |-> NotValidated]
    /\ cons = NotConsolidated
    /\ step_result = "none"
    /\ exit_code = -1
    /\ run_inputs = [d \in Dirs |-> FileAbsent]
    /\ prev_run = NoRun
    /\ args = NoArgs
    /\ value = NoValue
    /\ invocations = <<>>
    /\ \E reports \in SUBSET Playlists, keep \in BOOLEAN :
         /\ downloads = DownloadsWith(reports)
         /\ cleanup = CleanupStart(keep, reports)

\* one playlist directory after the body of the first loop: the report is
\* moved beside the directory, the directory removed, then recreated and the
\* report moved back; an exception of rmtree, mkdir or the move back is
\* caught and recorded, and the rest of the body is skipped
PlaylistAfter(dir, keep, outcome) ==
    LET moved == keep /\ dir.report
    IN  IF outcome = "rmtree_error"
        THEN [dir |-> [dir EXCEPT !.report = dir.report /\ ~moved],
              temp |-> moved, error |-> TRUE]
        ELSE IF outcome = "restore_error"
        THEN [dir |-> [exists |-> FALSE, report |-> FALSE, content |-> FALSE],
              temp |-> moved, error |-> TRUE]
        ELSE [dir |-> [exists |-> keep, report |-> moved, content |-> FALSE],
              temp |-> FALSE, error |-> FALSE]

\* the body of `for playlist_dir in downloads_path.iterdir()`
cleanup_playlist_dir ==
    /\ cleanup.pc = "playlists"
    /\ \E p \in cleanup.todo :
       \E outcome \in {"removed", "rmtree_error"}
                      \cup (IF cleanup.keep_execution_reports
                            THEN {"restore_error"} ELSE {}) :
         LET after == PlaylistAfter(downloads.playlists[p],
                                    cleanup.keep_execution_reports, outcome)
         IN  /\ downloads' =
                    [playlists |-> [downloads.playlists EXCEPT ![p] = after.dir],
                     temp_reports |->
                         IF after.temp THEN downloads.temp_reports \cup {p}
                         ELSE downloads.temp_reports]
             /\ cleanup' =
                    [cleanup EXCEPT
                        !.todo = @ \ {p},
                        !.removed_items = IF after.error THEN @ ELSE @ \cup {p},
                        !.errors = IF after.error THEN @ \cup {p} ELSE @,
                        !.pc = IF cleanup.todo = {p} THEN "files" ELSE "playlists"]
    /\ UNCHANGED <<pipeline, args, value, invocations>>

\* the second loop: every .txt and .json file directly under downloads/ is
\* unlinked, the reports left beside the directories included; an unlink
\* that raises is recorded and the file stays
cleanup_loose_files ==
    /\ cleanup.pc = "files"
    /\ \E stay \in SUBSET downloads.temp_reports :
         /\ downloads' = [downloads EXCEPT !.temp_reports = stay]
         /\ cleanup' = [cleanup EXCEPT !.pc = "returned",
                                       !.errors = @ \cup stay]
    /\ UNCHANGED <<pipeline, args, value, invocations>>

NextCleanup ==
    \/ cleanup_playlist_dir
    \/ cleanup_loose_files

SpecCleanup == InitCleanup /\ [][NextCleanup]_vars

\* ------------------------------------------------------------------ claims
HasRow(rows, row) == \E i \in 1..Len(rows) : rows[i] = row

RowsOf(rows, filename) == {i \in 1..Len(rows) : rows[i].filename = filename}

\* C1: after consolidate_datasets has written the file, every row the file
\* held before whose filename is not among this run's approved rows is still
\* in the file, all fields unchanged.
C1_UntouchedRowsPreserved ==
    (cons.done /\ cons.write = WriteOk) =>
        \A i \in 1..Len(cons.pre_csv.rows) :
            cons.pre_csv.rows[i].filename \notin Filenames(cons.new_rows)
                => HasRow(final_csv.rows, cons.pre_csv.rows[i])

\* C2: when final_dataset.csv exists and loading it fails, the consolidator
\* does not write: the file is as it was before the call.
C2_UnloadableFileNotOverwritten ==
    (cons.done /\ cons.load_error) => final_csv = cons.pre_csv

\* C3: after consolidate_datasets the file holds either its complete
\* previous content or the complete merged result, never a part of it.
C3_NoPartialWrite ==
    cons.done =>
        \/ final_csv = cons.pre_csv
        \/ final_csv = FullFile(cons.combined_data)

\* C4: when the dataset could not be loaded or written, the validation step
\* is reported as failed and the pipeline's exit code is not zero.
C4_PersistenceErrorIsFatal ==
    (pc = "idle" /\ cons.done /\ (cons.load_error \/ cons.write # WriteOk))
        => (step_result = "failed" /\ exit_code # 0)

\* the last row of new_rows with the filename of new_rows[i]
LastNew(new_rows, i) ==
    new_rows[CHOOSE j \in RowsOf(new_rows, new_rows[i].filename) :
                \A k \in RowsOf(new_rows, new_rows[i].filename) : k <= j]

\* C5: consolidate_datasets upserts every new row by filename: the merged
\* data holds exactly one row with that filename and it is the new row,
\* field for field (the last one when the batch approved the filename twice);
\* a filename that was already there keeps its place, a new one is added;
\* and a completed write puts that row, as text, in the file.
C5_UpsertByFilename ==
    cons.done =>
        \A i \in 1..Len(cons.new_rows) :
            LET filename == cons.new_rows[i].filename
                at == RowsOf(cons.combined_data, filename)
                old == RowsOf(cons.existing_data, filename)
            IN  /\ Cardinality(at) = 1
                /\ \A k \in at : cons.combined_data[k] = LastNew(cons.new_rows, i)
                /\ old # {} => at = old
                /\ old = {} => \A k \in at : k > Len(cons.existing_data)
                /\ cons.write = WriteOk =>
                       /\ Cardinality(RowsOf(final_csv.rows, filename)) = 1
                       /\ HasRow(final_csv.rows, CsvRow(LastNew(cons.new_rows, i)))

\* C5 witness: a completed consolidation replaced a persisted row by a new
\* row with other texts and another score, and inserted a new filename.
C5_Witness ==
    /\ cons.done
    /\ cons.write = WriteOk
    /\ \E i \in 1..Len(cons.new_rows), k \in 1..Len(cons.pre_csv.rows) :
          /\ cons.pre_csv.rows[k].filename = cons.new_rows[i].filename
          /\ cons.pre_csv.rows[k].lgris_text # cons.new_rows[i].lgris_text
          /\ cons.pre_csv.rows[k].freds0_text # cons.new_rows[i].freds0_text
          /\ cons.pre_csv.rows[k].similarity # CsvCell(cons.new_rows[i].similarity)
          /\ ~HasRow(final_csv.rows, cons.pre_csv.rows[k])
          /\ HasRow(final_csv.rows, CsvRow(cons.new_rows[i]))
    /\ \E i \in 1..Len(cons.new_rows) :
          cons.new_rows[i].filename \notin Filenames(cons.pre_csv.rows)

\* C6: after every consolidation that wrote the file, it has at most one row
\* per filename and its filenames are exactly those persisted before plus
\* those approved in the run.
C6_UniqueFilenamesAndUnion ==
    (cons.done /\ cons.write = WriteOk) =>
        /\ \A i, j \in 1..Len(final_csv.rows) :
               final_csv.rows[i].filename = final_csv.rows[j].filename => i = j
        /\ Filenames(final_csv.rows) =
               Filenames(cons.pre_csv.rows) \cup Filenames(cons.new_rows)

\* C7: when a batch run has persisted its dataset and the next run finds the
\* same directory contents and meets the same per-directory outcomes, that
\* second run leaves final_dataset.csv with the rows the first one left:
\* same number of rows, same content.
C7_RepeatRunStable ==
    (/\ pc = "step"
     /\ prev_run.valid
     /\ prev_run.persisted
     /\ prev_run.normalized = run_inputs
     /\ prev_run.io = [d \in Dirs |-> report[d].io])
        => final_csv.rows = prev_run.final_csv.rows

\* C8: consolidate_datasets never skips the write: with or without new rows,
\* with or without a file from before (then nothing is loaded and that is no
\* error), a write that completes leaves the header and every merged row,
\* one row per filename of the loaded data and of the new rows.
C8_AlwaysRepersistsInFull ==
    (cons.done /\ cons.write = WriteOk) =>
        /\ final_csv.exists
        /\ final_csv.header
        /\ Len(final_csv.rows) =
               Cardinality(Filenames(cons.existing_data)
                           \cup Filenames(cons.new_rows))
        /\ \A i \in 1..Len(cons.existing_data) :
               cons.existing_data[i].filename \notin Filenames(cons.new_rows)
                   => HasRow(final_csv.rows, cons.existing_data[i])
        /\ \A i \in 1..Len(cons.new_rows) :
               HasRow(final_csv.rows, CsvRow(LastNew(cons.new_rows, i)))
        /\ ~cons.pre_csv.exists =>
               (~cons.load_error /\ cons.existing_data = <<>>)

\* C8 witness: a first run, no file before and nothing approved, wrote a
\* file that holds the header and no row.
C8_Witness ==
    /\ cons.done
    /\ cons.write = WriteOk
    /\ cons.new_rows = <<>>
    /\ ~cons.pre_csv.exists
    /\ final_csv = [exists |-> TRUE, header |-> TRUE, rows |-> <<>>]

\* a text that is neither null nor empty
Present(t) == t # None /\ Len(t) > 0

\* the pairs process_validation evaluated in directory d
PairsOf(d) == run_inputs[d].pairs

\* C9: for every evaluated pair with both normalized texts present the
\* verdict is approved exactly when similarity >= threshold (equality
\* included) and rejected otherwise; with a null or empty normalized text on
\* either side the verdict is invalid.
C9_VerdictByThreshold ==
    \A d \in Dirs :
        report[d].loaded =>
            /\ DOMAIN report[d].stats.verdicts = DOMAIN PairsOf(d)
            /\ \A s \in DOMAIN PairsOf(d) :
                  LET v == report[d].stats.verdicts[s]
                      both == /\ Present(PairsOf(d)[s].lgris_normalized)
                              /\ Present(PairsOf(d)[s].freds0_normalized)
                      reaches == v.similarity.num * 100 >= threshold * v.similarity.den
                  IN  /\ (both /\ reaches) => v.verdict = "approved"
                      /\ (both /\ ~reaches) => v.verdict = "rejected"
                      /\ ~both => v.verdict = "invalid"

\* C9 witness: a pair with both texts present whose similarity equals the
\* threshold exactly was approved, next to a pair that is invalid.
C9_Witness ==
    \E d \in Dirs :
        /\ report[d].loaded
        /\ \E s \in DOMAIN PairsOf(d) :
              /\ Present(PairsOf(d)[s].lgris_normalized)
              /\ Present(PairsOf(d)[s].freds0_normalized)
              /\ report[d].stats.verdicts[s].similarity.num * 100 =
                     threshold * report[d].stats.verdicts[s].similarity.den
              /\ report[d].stats.verdicts[s].verdict = "approved"
        /\ \E s \in DOMAIN PairsOf(d) :
              /\ ~Present(PairsOf(d)[s].lgris_normalized)
              /\ report[d].stats.verdicts[s].verdict = "invalid"

WithVerdict(d, verdict) ==
    {s \in DOMAIN report[d].stats.verdicts :
        report[d].stats.verdicts[s].verdict = verdict}

\* C10: in every validated directory the counts partition the pairs, each
\* count is the number of pairs with that verdict, and an invalid pair has
\* no row in the approved data or the returned list and no audio copy.
C10_CountsPartitionPairs ==
    \A d \in Dirs :
        report[d].loaded =>
            LET st == report[d].stats
            IN  /\ st.total_pairs =
                       st.approved_pairs + st.rejected_pairs + st.invalid_pairs
                /\ st.total_pairs = Cardinality(DOMAIN PairsOf(d))
                /\ st.approved_pairs = Cardinality(WithVerdict(d, "approved"))
                /\ st.rejected_pairs = Cardinality(WithVerdict(d, "rejected"))
                /\ st.invalid_pairs = Cardinality(WithVerdict(d, "invalid"))
                /\ \A s \in WithVerdict(d, "invalid") :
                       /\ Filename(s) \notin Filenames(st.approved_data)
                       /\ Filename(s) \notin Filenames(report[d].returned)
                       /\ s \notin report[d].copied

\* C10 witness: a validated directory with an invalid pair and an approved
\* pair whose row was returned and whose audio was copied.
C10_Witness ==
    \E d \in Dirs :
        /\ report[d].loaded
        /\ report[d].stats.invalid_pairs = 1
        /\ report[d].stats.approved_pairs = 1
        /\ report[d].stats.total_pairs = 2
        /\ Len(report[d].returned) = 1
        /\ Cardinality(report[d].copied) = 1

\* C11: for every directory whose pairs were loaded, the list that
\* process_validation returns holds exactly the rows of the approved pairs,
\* one row per approved pair and none dropped, whatever became of the two
\* diagnostic files.
C11_ReturnsEveryApprovedRow ==
    \A d \in Dirs :
        report[d].loaded =>
            /\ report[d].returned = report[d].stats.approved_data
            /\ Filenames(report[d].returned) =
                   {Filename(s) : s \in WithVerdict(d, "approved")}
            /\ Len(report[d].returned) = Cardinality(WithVerdict(d, "approved"))

\* C12: an approved pair whose audio could not be copied (the copy raised or
\* the source file was missing) is logged, its row is in the list
\* process_validation returns, and a consolidation whose write completes
\* leaves a row with its filename in final_dataset.csv.
C12_CopyFailureKeepsRow ==
    \A d \in Dirs :
        \A s \in report[d].logged :
            /\ s \in WithVerdict(d, "approved")
            /\ s \notin report[d].copied
            /\ Filename(s) \in Filenames(report[d].returned)
            /\ (cons.done /\ cons.write = WriteOk)
                   => Filename(s) \in Filenames(final_csv.rows)

\* the rows of final_dataset.csv that this run approved
ApprovedInRun(d) == {s \in WithVerdict(d, "approved") :
                        Filename(s) \in Filenames(final_csv.rows)}

AudioOfCopiedPairs ==
    \A d \in Dirs :
        /\ report[d].copied =
               WithVerdict(d, "approved") \ report[d].logged
        /\ \A s \in report[d].copied : Filename(s) \in output_segments
        /\ report[d].sources_left = report[d].sources
        /\ report[d].copied \subseteq report[d].sources_left

C14_OriginalTextsNormalizedScore ==
    \A d \in Dirs :
        \A i \in 1..Len(report[d].stats.approved_data) :
            LET row == report[d].stats.approved_data[i]
            IN  \E s \in WithVerdict(d, "approved") :
                  /\ row.filename = Filename(s)
                  /\ row.lgris_text = PairsOf(d)[s].lgris_original
                  /\ row.freds0_text = PairsOf(d)[s].freds0_original
                  /\ row.similarity =
                         calculate_similarity(PairsOf(d)[s].lgris_normalized,
                                              PairsOf(d)[s].freds0_normalized)

\* C14 witness: a returned row whose texts differ from the normalized texts
\* of its pair, with the score 1 of the normalized texts.
C14_Witness ==
    \E d \in Dirs :
        \E i \in 1..Len(report[d].returned), s \in WithVerdict(d, "approved") :
            /\ report[d].returned[i].filename = Filename(s)
            /\ report[d].returned[i].lgris_text # PairsOf(d)[s].lgris_normalized
            /\ report[d].returned[i].freds0_text # PairsOf(d)[s].freds0_normalized
            /\ report[d].returned[i].lgris_text = PairsOf(d)[s].lgris_original
            /\ report[d].returned[i].similarity = Float(1, 1)

\* the segment ids in an engine's result file of directory d
IdsOf(file) == DOMAIN Transcriptions(file)

\* directory d was aggregated with success in the current run
Aggregated(d) == normalization.ran /\ normalization.results[d] = "True"

\* the ids of d that only one engine transcribed
OneSided(d) ==
    (IdsOf(transcriptions[d].lgris) \cup IdsOf(transcriptions[d].freds0))
        \ (IdsOf(transcriptions[d].lgris) \cap IdsOf(transcriptions[d].freds0))

\* C15: when process_segments_folder succeeds, the file it writes holds
\* exactly one pair per segment id of the union of the two engines' ids; an
\* id only one engine has gives a pair whose other side is null, original
\* and normalized, and the validation of that file counts the pair invalid.
C15_OnePairPerIdOfUnion ==
    \A d \in Dirs :
        Aggregated(d) =>
            /\ normalized[d].state = "ok"
            /\ DOMAIN normalized[d].pairs =
                   IdsOf(transcriptions[d].lgris) \cup IdsOf(transcriptions[d].freds0)
            /\ \A s \in OneSided(d) :
                  /\ s \notin IdsOf(transcriptions[d].lgris) =>
                        /\ normalized[d].pairs[s].lgris_original = None
                        /\ normalized[d].pairs[s].lgris_normalized = None
                  /\ s \notin IdsOf(transcriptions[d].freds0) =>
                        /\ normalized[d].pairs[s].freds0_original = None
                        /\ normalized[d].pairs[s].freds0_normalized = None
                  /\ (pc # "idle" /\ report[d].loaded) =>
                        /\ s \in DOMAIN report[d].stats.verdicts
                        /\ report[d].stats.verdicts[s].verdict = "invalid"
                        /\ Filename(s) \notin Filenames(report[d].returned)

\* C15 witness: a directory aggregated and validated in which engine B has
\* no entry for s1: the pair s1 is there with a null side and is invalid,
\* next to a pair both engines transcribed that is approved.
C15_Witness ==
    \E d \in Dirs :
        /\ Aggregated(d)
        /\ pc # "idle"
        /\ report[d].loaded
        /\ "s1" \in IdsOf(transcriptions[d].lgris)
        /\ "s1" \notin IdsOf(transcriptions[d].freds0)
        /\ normalized[d].pairs["s1"].lgris_normalized = <<"a", "b">>
        /\ normalized[d].pairs["s1"].freds0_normalized = None
        /\ report[d].stats.verdicts["s1"].verdict = "invalid"
        /\ report[d].stats.verdicts["s0"].verdict = "approved"

\* a result file that parses into the expected mapping of segment id to record
WellShaped(file) ==
    /\ file.state = "parsed"
    /\ file.shape = "dict"
    /\ \A s \in DOMAIN file.transcriptions : file.transcriptions[s].shape = "record"

\* C16: whenever one of the two result files of a directory is absent, or is
\* there but does not parse into the expected mapping, the aggregation of the
\* directory does not succeed and normalized_transcriptions.json is not
\* written: it is as it was before the step.
C16_FailsOnMissingOrMalformed ==
    \A d \in Dirs :
        (/\ normalization.ran
         /\ normalization.results[d] # "none"
         /\ \/ ~WellShaped(transcriptions[d].lgris)
            \/ ~WellShaped(transcriptions[d].freds0))
            => /\ normalization.results[d] # "True"
               /\ normalized[d] = normalization.before[d]

\* both result files are listed in the directory
Discovered(d) ==
    /\ transcriptions[d].lgris.state # "absent"
    /\ transcriptions[d].freds0.state # "absent"

\* C17: in the normalization batch a directory whose aggregation fails does
\* not keep any other discovered directory from being processed, and the
\* batch runs to its end.
C17_FailureDoesNotAbortBatch ==
    normalization.ran =>
        \A d, e \in Dirs :
            (/\ d # e
             /\ Discovered(d)
             /\ normalization.results[e] \in {"False", "raised", "skipped"})
                => normalization.results[d] # "none"

\* C18: a directory whose aggregation did not succeed in the current run
\* hands no row to the consolidator in that run.
C18_FailedDirectoryContributesNothing ==
    \A d \in Dirs :
        (/\ pc = "step"
         /\ normalization.ran
         /\ normalization.results[d] \in {"False", "skipped", "raised"})
            => report[d].returned = <<>>

\* the rows returned for the directories, in the order they were visited
RECURSIVE RowsInOrder(_, _, _)
RowsInOrder(order, i, returned) ==
    IF i > Len(order) THEN <<>>
    ELSE returned[order[i]] \o RowsInOrder(order, i + 1, returned)

RunRows == RowsInOrder(listing, 1, [d \in Dirs |-> report[d].returned])

\* one step of a batch run, as C19 describes it
OneConsolidation ==
    /\ final_csv' # final_csv => (~cons.done /\ cons'.done)
    /\ (~cons.done /\ cons'.done) =>
           /\ pc = "walk"
           /\ walk = <<>>
           /\ \A d \in Dirs : run_inputs[d].state # "absent" => report[d].ran
           /\ cons'.pre_csv = final_csv
           /\ cons'.new_rows = all_approved_data
           /\ cons'.new_rows = RunRows
    /\ cons.done => (cons' = cons \/ (pc = "idle" /\ cons' = NotConsolidated))
    /\ pc = "walk" => final_csv = prev_run.final_csv
    /\ runs' # runs => cons.done

\* C19: in every batch run consolidate_datasets is called exactly once, after
\* process_validation has run for every discovered directory, with the rows
\* of all directories in one list; final_dataset.csv is written by that call
\* and by no other step.
C19_OneConsolidationPerRun == [][OneConsolidation]_vars

\* C19 witness: a run in which both directories returned rows and the one
\* consolidation received them all and wrote them.
C19_Witness ==
    /\ pc = "step"
    /\ cons.done
    /\ cons.write = WriteOk
    /\ \A d \in Dirs : report[d].returned # <<>>
    /\ cons.new_rows = report["d1"].returned \o report["d2"].returned
    /\ \A i \in 1..Len(cons.new_rows) :
          cons.new_rows[i].filename \in Filenames(final_csv.rows)

\* the rows a run over the same files returns when the directories are
\* visited in sorted order
RECURSIVE SortedRunRows(_)
SortedRunRows(i) ==
    IF i > Len(WalkOrder) THEN <<>>
    ELSE ValidationOutcome(run_inputs[WalkOrder[i]], threshold, "ok", {}, {}).returned
             \o SortedRunRows(i + 1)

\* C20: a run over given directories, files and previous final_dataset.csv
\* leaves the same rows whatever the order in which the directories are
\* listed: for every filename the row in the file is the row a walk in
\* sorted order leaves.
C20_SameRowsInEveryOrder ==
    (pc = "step" /\ cons.done) =>
        \A i \in 1..Len(final_csv.rows) :
            HasRow(ConsolidatedFile(cons.pre_csv, SortedRunRows(1), FALSE,
                                    WriteOk).rows,
                   final_csv.rows[i])

\* C21: no verdict is ever computed with a similarity threshold outside
\* [0.0, 1.0], whichever way validation was entered.
C21_NoVerdictOutOfRange ==
    \A d \in Dirs : report[d].loaded => ThresholdValid(threshold)

\* C22: when two invocations consolidate into the same final_dataset.csv,
\* once both are done the file holds the approved rows of both.
C22_NoLostUpdate ==
    (\A i \in Invocations : invocations[i].pc = "done") =>
        \A i \in Invocations :
            Filenames(invocations[i].all_approved_data)
                \subseteq Filenames(final_csv.rows)

C24_NormalizeTotal ==
    value.op = "normalize_text" =>
        /\ value.result = None
           \/ (value.result \in Seq(NormChars \cup {"a"}) /\ Len(value.result) > 0)
        /\ strip(args.text) = <<>> => value.result = None

\* C24 witness: a text of punctuation and whitespace only, which is neither
\* empty nor whitespace-only, was turned into null.
C24_Witness ==
    /\ value.op = "normalize_text"
    /\ args.text = <<" ", ".", "\n">>
    /\ value.result = None

\* C25: calculate_similarity gives the same score in both argument orders,
\* and 0.0 in both when a text is null, empty or whitespace-only.
C25_SimilaritySymmetric ==
    value.op = "calculate_similarity" =>
        /\ value.result = calculate_similarity(args.text2, args.text1)
        /\ (\E t \in {args.text1, args.text2} : t = None \/ strip(t) = <<>>)
               => value.result = Float(0, 1)

\* C25 witness: two texts of different lengths scored strictly between 0
\* and 1.
C25_Witness ==
    /\ value.op = "calculate_similarity"
    /\ args.text1 = <<"a", "b">>
    /\ args.text2 = <<"a">>
    /\ value.result = Float(1, 2)

\* the outcome of the worked example
ExampleOutcome ==
    LET pairs == value.aggregated.file.pairs
        stats == value.validated.stats
    IN  /\ value.aggregated.returned = "True"
        /\ DOMAIN pairs = {"a_0", "a_1", "a_2"}
        /\ pairs["a_0"].lgris_normalized = OlaMundo
        /\ pairs["a_0"].freds0_normalized = OlaMundo
        /\ stats.verdicts["a_0"] =
               [verdict |-> "approved", similarity |-> Float(1, 1)]
        /\ stats.verdicts["a_1"].verdict = "rejected"
        /\ stats.verdicts["a_2"].verdict = "invalid"
        /\ stats.total_pairs = 3
        /\ stats.approved_pairs = 1
        /\ stats.rejected_pairs = 1
        /\ stats.invalid_pairs = 1

\* C26: the directory of the worked example, at threshold 0.8, gives a_0
\* normalized to "ola mundo" on both sides and approved with similarity 1.0,
\* a_1 rejected, a_2 invalid, and the counts 3, 1, 1, 1.
C26_WorkedExample ==
    (value.op = "directory" /\ args.engines = ExampleDirectory /\ threshold = 80)
        => ExampleOutcome

\* C26 witness: the example has been run at threshold 0.8 and its single
\* approved row is a_0.wav with the original texts.
C26_Witness ==
    /\ value.op = "directory"
    /\ args.engines = ExampleDirectory
    /\ threshold = 80
    /\ value.validated.returned =
           <<[filename |-> "a_0.wav", lgris_text |-> OlaMundo,
              freds0_text |-> OlaMundoAccented, similarity |-> Float(1, 1)]>>

\* the directories whose validation ran to completion in this run
Completed == {d \in Dirs : report[d].loaded /\ report[d].io = "ok"}

\* C27: the processed-directory count of the summary equals the number of
\* discovered directories whose validation ran to completion in this run,
\* whether or not a pair in them was approved.
C27_ProcessedCountsCompleted ==
    pc = "step" => processed = Cardinality(Completed)

\* C28: a run that ends successfully removes nothing from the output: every
\* filename final_dataset.csv held before the run is still in it, and no
\* audio file has left output/segments.
C28_FilenamesOnlyGrow ==
    (pc = "idle" /\ step_result = "success") =>
        Filenames(cons.pre_csv.rows) \subseteq Filenames(final_csv.rows)

\* C29: after the walk of a batch run, every audio file the run copied into
\* output/segments belongs to a row that was handed to the consolidator.
C29_CopiedAudioHasRow ==
    pc = "step" =>
        \A d \in Dirs : \A s \in report[d].copied :
            Filename(s) \in Filenames(cons.new_rows)

\* C30: when cleanup_intermediate_files has returned with
\* keep_execution_reports = True, every playlist directory that held an
\* execution_report.json before the cleanup holds it at the same path.
C30_ReportsPreserved ==
    (cleanup.pc = "returned" /\ cleanup.keep_execution_reports) =>
        \A p \in cleanup.had_report : downloads.playlists[p].report

====
